---------------------------- MODULE Spec2Model ----------------------------
(***************************************************************************)
(* A model of src/app.py: the campaign open-rate dashboard.                *)
(*                                                                         *)
(* Text is modelled as tuples of one-character strings, so that lower(),   *)
(* substring search, rstrip("%"), float() and the timestamp format are     *)
(* computed character by character.  Floating-point numbers are modelled   *)
(* as exact rationals [n, d] in lowest terms (rounding is abstracted), and *)
(* NaN as a value of its own.                                              *)
(***************************************************************************)
EXTENDS Integers, Sequences, FiniteSets, TLC

VARIABLES
    build,              \* tie order of the installed sort kernel (fixed per build)
    uploaded_file,      \* st.file_uploader's value: None or the CSV rows
    frame,              \* the DataFrame read at line 198, mutated in place by process_data
    error,              \* the exception that ended the script run, or "none"
    sorted_df,          \* df after line 54 (sorted, SHOW_COLUMNS)
    df,                 \* the row-level table returned by process_data
    grouped,            \* the group-summary table returned by process_data
    bar_order,          \* category_orders of plot_average_open_rates
    box_order,          \* category_orders of plot_open_rate_distribution
    name,               \* argument of a direct call of categorize_campaign
    label               \* its result ("" before the call)

vars == <<build, uploaded_file, frame, error, sorted_df, df, grouped, bar_order,
          box_order, name, label>>

pipelineVars == <<build, uploaded_file, frame, error, sorted_df, df, grouped,
                  bar_order, box_order>>

\* st.file_uploader returns None until a file is chosen
NoUpload == [present |-> FALSE, rows |-> <<>>]
Uploaded(file) == [present |-> TRUE, rows |-> file]

\* no DataFrame exists
NoFrame == [columns |-> {}, Open_Rate_dtype |-> "none", rows |-> <<>>]

(***************************************************************************)
(* Text                                                                    *)
(***************************************************************************)
UpperCase == <<"A","B","C","D","E","F","G","H","I","J","K","L","M",
               "N","O","P","Q","R","S","T","U","V","W","X","Y","Z">>
LowerCase == <<"a","b","c","d","e","f","g","h","i","j","k","l","m",
               "n","o","p","q","r","s","t","u","v","w","x","y","z">>

LowerChar(c) ==
    IF \E i \in 1..Len(UpperCase) : UpperCase[i] = c
    THEN LowerCase[CHOOSE i \in 1..Len(UpperCase) : UpperCase[i] = c]
    ELSE c

\* str.lower()
Lower(s) == [i \in 1..Len(s) |-> LowerChar(s[i])]

\* Python's  sub in s
Contains(s, sub) ==
    \E i \in 0..(Len(s) - Len(sub)) : SubSeq(s, i + 1, i + Len(sub)) = sub

wednesday == <<"w","e","d","n","e","s","d","a","y">>
friday    == <<"f","r","i","d","a","y">>
monday    == <<"m","o","n","d","a","y">>
monthly   == <<"m","o","n","t","h","l","y">>

CategorizeFridayFirst(nm) ==
    LET lowered == Lower(nm) IN
    IF Contains(lowered, friday) THEN "Friday Campaign"
    ELSE IF Contains(lowered, wednesday) THEN "Wednesday Campaign"
    ELSE IF Contains(lowered, monday) THEN "Monday Campaign"
    ELSE IF Contains(lowered, monthly) THEN "Monthly Campaign"
    ELSE "Other"

categorize_campaign(nm) ==
    LET lowered == Lower(nm) IN
    IF Contains(lowered, wednesday) THEN "Wednesday Campaign"
    ELSE IF Contains(lowered, friday) THEN "Friday Campaign"
    ELSE IF Contains(lowered, monday) THEN "Monday Campaign"
    ELSE IF Contains(lowered, monthly) THEN "Monthly Campaign"
    ELSE "Other"

(***************************************************************************)
(* Numbers: a float is a rational [n, d] in lowest terms with d > 0;       *)
(* NaN is [n |-> 0, d |-> 0].                                              *)
(***************************************************************************)
NaN == [n |-> 0, d |-> 0]
IsNaN(x) == x.d = 0

Abs(i) == IF i < 0 THEN -i ELSE i

RECURSIVE GCD(_, _)
GCD(a, b) == IF b = 0 THEN a ELSE GCD(b, a % b)

Rat(num, den) ==
    LET g == GCD(Abs(num), Abs(den))
        sgn == IF den < 0 THEN -1 ELSE 1
    IN [n |-> sgn * (num \div g), d |-> sgn * (den \div g)]

Int2Rat(i) == [n |-> i, d |-> 1]

\* IEEE comparisons: every comparison with NaN is False
Lt(a, b) == ~IsNaN(a) /\ ~IsNaN(b) /\ a.n * b.d < b.n * a.d
Gt(a, b) == Lt(b, a)

RAdd(a, b) == IF IsNaN(a) \/ IsNaN(b) THEN NaN ELSE Rat(a.n * b.d + b.n * a.d, a.d * b.d)
RSub(a, b) == IF IsNaN(a) \/ IsNaN(b) THEN NaN ELSE Rat(a.n * b.d - b.n * a.d, a.d * b.d)
RMul(a, b) == IF IsNaN(a) \/ IsNaN(b) THEN NaN ELSE Rat(a.n * b.n, a.d * b.d)
\* division by a non-zero integer constant
RDivInt(a, k) == IF IsNaN(a) THEN NaN ELSE Rat(a.n, a.d * k)

(***************************************************************************)
(* float(str) and str.rstrip("%")                                          *)
(***************************************************************************)
Digits == <<"0","1","2","3","4","5","6","7","8","9">>
IsDigit(c) == \E i \in 1..Len(Digits) : Digits[i] = c
DigitVal(c) == (CHOOSE i \in 1..Len(Digits) : Digits[i] = c) - 1
AllDigits(s) == \A i \in 1..Len(s) : IsDigit(s[i])

RECURSIVE DigitsValue(_)
DigitsValue(s) ==
    IF s = <<>> THEN 0
    ELSE DigitsValue(SubSeq(s, 1, Len(s) - 1)) * 10 + DigitVal(s[Len(s)])

RECURSIVE Pow10(_)
Pow10(k) == IF k = 0 THEN 1 ELSE 10 * Pow10(k - 1)

\* str.rstrip(chars) for a one-character set: every trailing occurrence goes
RECURSIVE RStrip(_, _)
RStrip(s, c) ==
    IF s # <<>> /\ s[Len(s)] = c THEN RStrip(SubSeq(s, 1, Len(s) - 1), c) ELSE s

RECURSIVE LStrip(_, _)
LStrip(s, c) ==
    IF s # <<>> /\ s[1] = c THEN LStrip(Tail(s), c) ELSE s

\* float(s): surrounding blanks, an optional sign, digits with at most one
\* decimal point and at least one digit.  (Exponents, inf, nan and
\* underscores are not part of the inputs modelled.)
ParseFloat(s) ==
    LET t == LStrip(RStrip(s, " "), " ")
        signed == t # <<>> /\ t[1] \in {"-", "+"}
        body == IF signed THEN Tail(t) ELSE t
        dots == {i \in 1..Len(body) : body[i] = "."}
        dot == IF dots = {} THEN Len(body) + 1 ELSE CHOOSE i \in dots : TRUE
        ip == SubSeq(body, 1, dot - 1)
        fp == SubSeq(body, dot + 1, Len(body))
        wellFormed == /\ Cardinality(dots) <= 1
                      /\ AllDigits(ip) /\ AllDigits(fp)
                      /\ Len(ip) + Len(fp) >= 1
        mag == Rat(DigitsValue(ip) * Pow10(Len(fp)) + DigitsValue(fp), Pow10(Len(fp)))
    IN IF ~wellFormed THEN [ok |-> FALSE, v |-> NaN]
       ELSE [ok |-> TRUE,
             v |-> IF signed /\ t[1] = "-" THEN Rat(-mag.n, mag.d) ELSE mag]

(***************************************************************************)
(* pd.to_datetime(..., format="%Y-%m-%d %H:%M:%S") on one string           *)
(***************************************************************************)
IsLeap(y) == (y % 4 = 0 /\ y % 100 # 0) \/ y % 400 = 0

DaysInMonth(y, m) ==
    IF m = 2 THEN (IF IsLeap(y) THEN 29 ELSE 28)
    ELSE IF m \in {4, 6, 9, 11} THEN 30 ELSE 31

NaT == <<>>

\* The zero-padded 19-character form; a string of any other shape, or with a
\* field out of range, does not match.
StrpTime(s) ==
    LET shape == /\ Len(s) = 19
                 /\ s[5] = "-" /\ s[8] = "-" /\ s[11] = " "
                 /\ s[14] = ":" /\ s[17] = ":"
                 /\ \A i \in (1..19) \ {5, 8, 11, 14, 17} : IsDigit(s[i])
        y  == DigitsValue(SubSeq(s, 1, 4))
        mo == DigitsValue(SubSeq(s, 6, 7))
        dd == DigitsValue(SubSeq(s, 9, 10))
        hh == DigitsValue(SubSeq(s, 12, 13))
        mi == DigitsValue(SubSeq(s, 15, 16))
        ss == DigitsValue(SubSeq(s, 18, 19))
        inRange == /\ mo \in 1..12 /\ dd >= 1 /\ dd <= DaysInMonth(y, mo)
                   /\ hh <= 23 /\ mi <= 59 /\ ss <= 59
    IN IF shape /\ inRange
       THEN [ok |-> TRUE, t |-> <<y, mo, dd, hh, mi, ss>>]
       ELSE [ok |-> FALSE, t |-> NaT]

\* Series.dt.date
DateOf(t) == IF t = NaT THEN NaT ELSE SubSeq(t, 1, 3)

(***************************************************************************)
(* Cells and pd.read_csv                                                   *)
(***************************************************************************)
StrCell(s)  == [k |-> "str",      s |-> s,    v |-> NaN, t |-> NaT]
NumCell(x)  == [k |-> "float",    s |-> <<>>, v |-> x,   t |-> NaT]
TimeCell(t) == [k |-> "datetime", s |-> <<>>, v |-> NaN, t |-> t]
NaCell      == NumCell(NaN)

\* A column whose cells are all numbers or empty is parsed as float64 (an
\* empty cell is NaN); any other column keeps its strings (dtype object).
\* A file with no data row has object columns.
InferNumeric(cells) ==
    /\ Len(cells) > 0
    /\ \A i \in 1..Len(cells) : cells[i] = <<>> \/ ParseFloat(cells[i]).ok

ReadCell(s, numeric) ==
    IF s = <<>> THEN NaCell
    ELSE IF numeric THEN NumCell(ParseFloat(s).v)
    ELSE StrCell(s)

ReadRows(file, nameNum, timeNum, rateNum) ==
    [i \in 1..Len(file) |->
        [Campaign_Name  |-> ReadCell(file[i].Campaign_Name, nameNum),
         Campaign_ID    |-> file[i].Campaign_ID,
         Subject        |-> file[i].Subject,
         Send_Time      |-> ReadCell(file[i].Send_Time, timeNum),
         Open_Rate      |-> ReadCell(file[i].Open_Rate, rateNum),
         Send_Date      |-> NaT,
         Campaign_Group |-> "",
         Campaign_URL   |-> ""]]

NewFrame(file, nameNum, timeNum, rateNum) ==
    [columns |-> {"Campaign Name", "Campaign ID", "Subject", "Send Time", "Open Rate"},
     Open_Rate_dtype |-> IF rateNum THEN "float64" ELSE "object",
     rows |-> ReadRows(file, nameNum, timeNum, rateNum)]

\* the frame of the previous run kept and handed to process_data again
ReadCsvReuse(file, old) ==
    IF old # NoFrame THEN old
    ELSE NewFrame(file,
                  InferNumeric([i \in 1..Len(file) |-> file[i].Campaign_Name]),
                  InferNumeric([i \in 1..Len(file) |-> file[i].Send_Time]),
                  InferNumeric([i \in 1..Len(file) |-> file[i].Open_Rate]))

\* df = pd.read_csv(uploaded_file): a fresh frame on every script run.  `old`
\* is the frame of the previous run, which main never reads.
ReadCsv(file, old) ==
    NewFrame(file,
             InferNumeric([i \in 1..Len(file) |-> file[i].Campaign_Name]),
             InferNumeric([i \in 1..Len(file) |-> file[i].Send_Time]),
             InferNumeric([i \in 1..Len(file) |-> file[i].Open_Rate]))

(***************************************************************************)
(* Sorting: pandas' nargsort over numpy's argsort(kind="quicksort")        *)
(***************************************************************************)
Reverse(s) == [i \in 1..Len(s) |-> s[Len(s) + 1 - i]]

\* the elements of a set of integers in increasing order
Ascending(S) ==
    [p \in 1..Cardinality(S) |-> CHOOSE i \in S : Cardinality({j \in S : j < i}) = p - 1]

Take(s, indexer) == [p \in 1..Len(indexer) |-> s[indexer[p]]]

\* numpy argsort, ascending, of non-NaN values.  quicksort is not a stable
\* sort: a build whose kernel is the insertion sort ("stable") keeps equal
\* keys in their order, a vectorised kernel ("reversed" stands for those)
\* does not.
ArgSort(items, kernel) ==
    LET n == Len(items)
        Rank(i) == Cardinality({j \in 1..n : Lt(items[j], items[i])})
                   + Cardinality({j \in 1..n : items[j] = items[i]
                                    /\ IF kernel = "stable" THEN j < i ELSE j > i})
                   + 1
    IN [p \in 1..n |-> CHOOSE i \in 1..n : Rank(i) = p]

NArgSortAscending(items, kernel) ==
    LET idx == Ascending({i \in 1..Len(items) : ~IsNaN(items[i])})
        nanIdx == Ascending({i \in 1..Len(items) : IsNaN(items[i])})
    IN Take(idx, ArgSort(Take(items, idx), kernel)) \o nanIdx

\* nargsort(items, kind="quicksort", ascending=False, na_position="last")
NArgSort(items, kernel) ==
    LET idx == Reverse(Ascending({i \in 1..Len(items) : ~IsNaN(items[i])}))
        nanIdx == Ascending({i \in 1..Len(items) : IsNaN(items[i])})
    IN Reverse(Take(idx, ArgSort(Take(items, idx), kernel))) \o nanIdx

(***************************************************************************)
(* Series statistics (NaN is skipped, as pandas does)                      *)
(***************************************************************************)
NonNaN(values) == Take(values, Ascending({i \in 1..Len(values) : ~IsNaN(values[i])}))

SortedValues(values) ==
    LET v == NonNaN(values) IN Take(v, ArgSort(v, "stable"))

RECURSIVE Sum(_)
Sum(values) == IF values = <<>> THEN Int2Rat(0) ELSE RAdd(values[1], Sum(Tail(values)))

\* Series.count(): the number of non-null values
Count(values) == Len(NonNaN(values))

Mean(values) ==
    LET v == NonNaN(values) IN IF v = <<>> THEN NaN ELSE RDivInt(Sum(v), Len(v))

Median(values) ==
    LET v == SortedValues(values)
        n == Len(v)
    IN IF n = 0 THEN NaN
       ELSE IF n % 2 = 1 THEN v[(n + 1) \div 2]
       ELSE RDivInt(RAdd(v[n \div 2], v[n \div 2 + 1]), 2)

\* Series.quantile(q), interpolation="linear": q is num/den
Quantile(values, num, den) ==
    LET v == SortedValues(values)
        n == Len(v)
        lo == ((n - 1) * num) \div den
        rem == ((n - 1) * num) % den
    IN IF n = 0 THEN NaN
       ELSE IF rem = 0 THEN v[lo + 1]
       ELSE RAdd(v[lo + 1], RMul(RSub(v[lo + 2], v[lo + 1]), Rat(rem, den)))

(***************************************************************************)
(* The pipeline                                                            *)
(***************************************************************************)
SHOW_COLUMNS == <<"Campaign Group", "Campaign Name", "Subject", "Open Rate",
                  "Send Date", "Campaign URL">>

create_campaign_url(campaign_id) ==
    "https://www.klaviyo.com/campaign/" \o campaign_id \o "/reports/overview"

OpenRates(rows) == [i \in 1..Len(rows) |-> rows[i].Open_Rate]

WithFlags(rows, flags) ==
    [i \in 1..Len(rows) |->
        [Campaign_Group |-> rows[i].Campaign_Group,
         Campaign_Name  |-> rows[i].Campaign_Name,
         Subject        |-> rows[i].Subject,
         Open_Rate      |-> rows[i].Open_Rate,
         Send_Date      |-> rows[i].Send_Date,
         Campaign_URL   |-> rows[i].Campaign_URL,
         Is_Outlier     |-> flags[i]]]

GroupRates(rows, g) ==
    OpenRates(SelectSeq(rows, LAMBDA r : r.Campaign_Group = g))

\* bounds from each campaign group's own quartiles
IdentifyOutliersPerGroup(rows) ==
    LET Flag(r) ==
            LET rates == GroupRates(rows, r.Campaign_Group)
                Q1 == Quantile(rates, 1, 4)
                Q3 == Quantile(rates, 3, 4)
                IQR == RSub(Q3, Q1)
                lower_bound == RSub(Q1, RMul(Rat(3, 2), IQR))
                upper_bound == RAdd(Q3, RMul(Rat(3, 2), IQR))
            IN Lt(r.Open_Rate, lower_bound) \/ Gt(r.Open_Rate, upper_bound)
    IN WithFlags(rows, [i \in 1..Len(rows) |-> Flag(rows[i])])

\* also flags a value lying on a bound
IdentifyOutliersInclusive(rows) ==
    LET Q1 == Quantile(OpenRates(rows), 1, 4)
        Q3 == Quantile(OpenRates(rows), 3, 4)
        IQR == RSub(Q3, Q1)
        lower_bound == RSub(Q1, RMul(Rat(3, 2), IQR))
        upper_bound == RAdd(Q3, RMul(Rat(3, 2), IQR))
        Flag(r) == ~Gt(r.Open_Rate, lower_bound) \/ ~Lt(r.Open_Rate, upper_bound)
    IN WithFlags(rows, [i \in 1..Len(rows) |-> Flag(rows[i])])

\* drops the flagged rows instead of marking them
IdentifyOutliersDropping(rows) ==
    LET Q1 == Quantile(OpenRates(rows), 1, 4)
        Q3 == Quantile(OpenRates(rows), 3, 4)
        IQR == RSub(Q3, Q1)
        lower_bound == RSub(Q1, RMul(Rat(3, 2), IQR))
        upper_bound == RAdd(Q3, RMul(Rat(3, 2), IQR))
        Flag(r) == Lt(r.Open_Rate, lower_bound) \/ Gt(r.Open_Rate, upper_bound)
    IN SelectSeq(WithFlags(rows, [i \in 1..Len(rows) |-> Flag(rows[i])]),
                 LAMBDA r : ~r.Is_Outlier)

identify_outliers(rows) ==
    LET Q1 == Quantile(OpenRates(rows), 1, 4)
        Q3 == Quantile(OpenRates(rows), 3, 4)
        IQR == RSub(Q3, Q1)
        lower_bound == RSub(Q1, RMul(Rat(3, 2), IQR))
        upper_bound == RAdd(Q3, RMul(Rat(3, 2), IQR))
        Flag(r) == Lt(r.Open_Rate, lower_bound) \/ Gt(r.Open_Rate, upper_bound)
    IN WithFlags(rows, [i \in 1..Len(rows) |-> Flag(rows[i])])

\* errors="coerce": a string that does not match becomes NaT
SendTimeCoerced(rows) == FALSE

\* line 48 raises ValueError: some string does not match the format
SendTimeMismatch(rows) ==
    \E i \in 1..Len(rows) :
        rows[i].Send_Time.k = "str" /\ ~StrpTime(rows[i].Send_Time.s).ok

ToDatetime(cell) ==
    IF cell.k = "str" THEN TimeCell(StrpTime(cell.s).t)
    ELSE IF cell.k = "datetime" THEN cell
    ELSE TimeCell(NaT)

\* the percentage taken as the fraction itself
ToFractionUndivided(s) == ParseFloat(RStrip(s, "%"))

\* one element of  .str.rstrip("%").astype("float") / 100.0
ToFraction(s) ==
    LET f == ParseFloat(RStrip(s, "%"))
    IN [ok |-> f.ok, v |-> RDivInt(f.v, 100)]

\* line 51 raises ValueError: some string is no float once its "%" are gone
OpenRateMismatch(rows) ==
    \E i \in 1..Len(rows) :
        rows[i].Open_Rate.k = "str" /\ ~ToFraction(rows[i].Open_Rate.s).ok

\* groupby("Campaign Group") sorts its keys: the labels in string order
SortedLabels == <<"Friday Campaign", "Monday Campaign", "Monthly Campaign",
                  "Other", "Wednesday Campaign">>

GroupKeys(rows) ==
    SelectSeq(SortedLabels, LAMBDA g : \E i \in 1..Len(rows) : rows[i].Campaign_Group = g)

\* .agg({"Open Rate": ["mean", "median", "count"]}).reset_index()
Aggregate(rows) ==
    LET keys == GroupKeys(rows)
    IN [p \in 1..Len(keys) |->
          [Campaign_Group   |-> keys[p],
           Mean_Open_Rate   |-> Mean(GroupRates(rows, keys[p])),
           Median_Open_Rate |-> Median(GroupRates(rows, keys[p])),
           Campaign_Count   |-> Count(GroupRates(rows, keys[p]))]]

\* sort_values(column, ascending=False) of a table whose column is `keys`
SortValues(rows, keys, kernel) == Take(rows, NArgSort(keys, kernel))

ShowColumns(rows) ==
    [i \in 1..Len(rows) |->
        [Campaign_Group |-> rows[i].Campaign_Group,
         Campaign_Name  |-> rows[i].Campaign_Name.s,
         Subject        |-> rows[i].Subject,
         Open_Rate      |-> rows[i].Open_Rate.v,
         Send_Date      |-> rows[i].Send_Date,
         Campaign_URL   |-> rows[i].Campaign_URL]]

Raised(err, fr) ==
    [error |-> err, frame |-> fr, sorted_df |-> <<>>, df |-> <<>>, grouped |-> <<>>]

\* lines 48-49: Send Time becomes datetimes, Send Date is added
Line49(fr) ==
    [fr EXCEPT
       !.columns = @ \cup {"Send Date"},
       !.rows = [i \in 1..Len(fr.rows) |->
                   [fr.rows[i] EXCEPT
                      !.Send_Time = ToDatetime(@),
                      !.Send_Date = DateOf(ToDatetime(fr.rows[i].Send_Time).t)]]]

\* line 51: Open Rate becomes fractions (an empty cell stays NaN)
Line51(fr) ==
    [fr EXCEPT
       !.Open_Rate_dtype = "float64",
       !.rows = [i \in 1..Len(fr.rows) |->
                   [fr.rows[i] EXCEPT
                      !.Open_Rate = IF @.k = "str" THEN NumCell(ToFraction(@.s).v) ELSE @]]]

\* lines 52-53: Campaign Group and Campaign URL are added
Line53(fr) ==
    [fr EXCEPT
       !.columns = @ \cup {"Campaign Group", "Campaign URL"},
       !.rows = [i \in 1..Len(fr.rows) |->
                   [fr.rows[i] EXCEPT
                      !.Campaign_Group = categorize_campaign(fr.rows[i].Campaign_Name.s),
                      !.Campaign_URL = create_campaign_url(fr.rows[i].Campaign_ID)]]]

\* line 54: df.sort_values("Open Rate", ascending=False)[SHOW_COLUMNS]
Line54(fr, kernel) ==
    SortValues(ShowColumns(fr.rows),
               [i \in 1..Len(fr.rows) |-> fr.rows[i].Open_Rate.v], kernel)

\* lines 57-69: the summary of the flagged table, sorted by mean
Line69(flagged, kernel) ==
    SortValues(Aggregate(flagged),
               [p \in 1..Len(GroupKeys(flagged)) |->
                   Mean(GroupRates(flagged, GroupKeys(flagged)[p]))], kernel)

Returned(fr, sorted, flagged, kernel) ==
    [error |-> "none", frame |-> fr, sorted_df |-> sorted, df |-> flagged,
     grouped |-> Line69(flagged, kernel)]

From54(fr, sorted, kernel) == Returned(fr, sorted, identify_outliers(sorted), kernel)

From52(fr, kernel) ==
    IF \E i \in 1..Len(fr.rows) : fr.rows[i].Campaign_Name.k # "str"
    THEN Raised("AttributeError", fr)      \* NaN has no lower()
    ELSE From54(Line53(fr), Line54(Line53(fr), kernel), kernel)

From51(fr, kernel) ==
    IF fr.Open_Rate_dtype # "object"
    THEN Raised("AttributeError", fr)      \* .str needs string values
    ELSE IF OpenRateMismatch(fr.rows) THEN Raised("ValueError", fr)
    ELSE From52(Line51(fr), kernel)

\* process_data(df): `fr` is the caller's frame, which lines 48-53 change in
\* place; the exception of a failing line leaves the earlier changes.
process_data(fr, kernel) ==
    IF SendTimeMismatch(fr.rows) THEN Raised("ValueError", fr)
    ELSE From51(Line49(fr), kernel)

(***************************************************************************)
(* Presentation: the category orders the two charts are given              *)
(***************************************************************************)
\* category_orders of the bar chart: grouped["Campaign Group"].tolist()
plot_average_open_rates(grp) == [i \in 1..Len(grp) |-> grp[i].Campaign_Group]

\* the box plot ordered by each group's mean
BoxOrderByMean(rows, kernel) ==
    LET df_sorted == SortValues(rows, OpenRates(rows), kernel)
        keys == GroupKeys(df_sorted)
        means == [p \in 1..Len(keys) |-> Mean(GroupRates(df_sorted, keys[p]))]
    IN Take(keys, NArgSort(means, kernel))

\* category_orders of the box plot: the index of the per-group medians,
\* sorted descending
plot_open_rate_distribution(rows, kernel) ==
    LET df_sorted == SortValues(rows, OpenRates(rows), kernel)
        keys == GroupKeys(df_sorted)
        medians == [p \in 1..Len(keys) |-> Median(GroupRates(df_sorted, keys[p]))]
    IN Take(keys, NArgSort(medians, kernel))

(***************************************************************************)
(* main(): one run of the script                                           *)
(***************************************************************************)
NoFile ==
    /\ frame' = NoFrame
    /\ error' = "none"
    /\ sorted_df' = <<>>
    /\ df' = <<>>
    /\ grouped' = <<>>
    /\ bar_order' = <<>>
    /\ box_order' = <<>>

\* lines 202-207 after process_data returned or raised `r`.  An exception
\* ends the run before anything is displayed.  display_raw_data,
\* display_grouped_data, plot_open_rate_scatter and display_category_details
\* render `r.df` and `r.grouped` and keep nothing.
Display(r) ==
    /\ frame' = r.frame
    /\ error' = r.error
    /\ sorted_df' = r.sorted_df
    /\ df' = r.df
    /\ grouped' = r.grouped
    /\ IF r.error = "none"
       THEN /\ bar_order' = plot_average_open_rates(r.grouped)
            /\ box_order' = plot_open_rate_distribution(r.df, build)
       ELSE /\ bar_order' = <<>>
            /\ box_order' = <<>>

\* The script run with `file` uploaded.
main(file) == Display(process_data(ReadCsv(file, frame), build))

(***************************************************************************)
(* Inputs                                                                  *)
(***************************************************************************)
MaxRows == 4          \* rows of an uploaded file
MaxFormatRows == 3    \* rows of an uploaded file with ill-formed cells
MaxFragments == 2     \* fragments a campaign name is put together from

SeqsUpTo(S, n) == UNION {[1..k -> S] : k \in 0..n}

RECURSIVE Flatten(_)
Flatten(ss) == IF ss = <<>> THEN <<>> ELSE ss[1] \o Flatten(Tail(ss))

Fragments ==
    { <<"w","e","d","n","e","s","d","a","y">>, 
      <<"F","r","i","d","a","y">>, 
      <<"M","O","N","D","A","Y">>, 
      <<"M","o","n","t","h","l","y">>, 
      <<"W","e","d","N","e","s">>, 
      <<"f","r","i">>, 
      <<"d","a","y">>, 
      <<"m","o","n","t","h">>, 
      <<"l","y">>, 
      <<" ">>, 
      <<"x">> }

Names == {Flatten(fs) : fs \in SeqsUpTo(Fragments, MaxFragments)}

GoodTime == <<"2","0","2","4","-","0","8","-","2","1"," ","1","2",":","0","0",":","0","0">>

Row(nm, id, rate, time) ==
    [Campaign_Name |-> nm, Campaign_ID |-> id, Subject |-> "Subject " \o id,
     Send_Time |-> time, Open_Rate |-> rate]

FridayName == <<"F","r","i","d","a","y"," ","s","a","l","e">>
MondayName == <<"M","O","N","D","A","Y">>
BothName   == <<"f","r","i","d","a","y",","," ","t","h","e","n"," ","W","e","d","n","e","s","d","a","y">>
OtherName  == <<"n","e","w","s">>

\* well-formed rows, and one whose Open Rate cell is empty
Rows ==
    { Row(FridayName, "F1", <<"1","0","%">>, GoodTime),
      Row(MondayName, "M1", <<"0","%">>, GoodTime),
      Row(MondayName, "M2", <<"9","0","%">>, GoodTime),
      Row(OtherName,  "O1", <<"2","0","%">>, GoodTime),
      Row(OtherName,  "O2", <<>>, GoodTime),
      Row(BothName,   "W1", <<"1","0",".","0","%">>, GoodTime) }

\* rows whose cells depart from "NN.NN%" and "YYYY-MM-DD HH:MM:SS", and one
\* well-formed row
FormatRows ==
    { Row(FridayName, "F1", <<"1","0","%">>, GoodTime),
      Row(FridayName, "F2", <<"4","5">>, GoodTime),
      Row(MondayName, "M1", <<"a","b","c">>, GoodTime),
      Row(MondayName, "M2", <<"3","0","%">>, <<"2","0","2","4","-","0","8","-","2","1">>),
      Row(MondayName, "M3", <<"3","0","%">>, <<"2","0","2","4","-","1","3","-","0","1"," ","0","0",":","0","0",":","0","0">>),
      Row(OtherName,  "O1", <<"1","5","0","%">>, GoodTime),
      Row(OtherName,  "O2", <<"-","5","%">>, GoodTime),
      Row(OtherName,  "O3", <<"1","2",".","5","%","%">>, GoodTime),
      Row(OtherName,  "O4", <<"2","0","%">>, <<>>),
      Row(<<>>,       "X1", <<"2","0","%">>, GoodTime),
      Row(BothName,   "W1", <<"%">>, GoodTime) }

\* the values 1, 2, 3, 4, 5, 100 of the quartile example
ExampleFile ==
    << Row(FridayName, "E1", <<"1","0","0","%">>, GoodTime),
       Row(MondayName, "E2", <<"2","0","0","%">>, GoodTime),
       Row(MondayName, "E3", <<"1","0","0","0","0","%">>, GoodTime),
       Row(FridayName, "E4", <<"3","0","0","%">>, GoodTime),
       Row(OtherName,  "E5", <<"4","0","0","%">>, GoodTime),
       Row(MondayName, "E6", <<"5","0","0","%">>, GoodTime) >>

Files == SeqsUpTo(Rows, MaxRows) \cup {ExampleFile}
FormatFiles == SeqsUpTo(FormatRows, MaxFormatRows)

Kernels == {"stable", "reversed"}

Labels == {"Wednesday Campaign", "Friday Campaign", "Monday Campaign",
           "Monthly Campaign", "Other"}

(***************************************************************************)
(* The dashboard as a state machine                                        *)
(***************************************************************************)
Init ==
    /\ build \in Kernels
    /\ uploaded_file = NoUpload
    /\ frame = NoFrame
    /\ error = "none"
    /\ sorted_df = <<>>
    /\ df = <<>>
    /\ grouped = <<>>
    /\ bar_order = <<>>
    /\ box_order = <<>>
    /\ name = <<>>
    /\ label = ""

\* the user chooses a file: the script runs with it
Upload(file) ==
    /\ ~uploaded_file.present
    /\ uploaded_file' = Uploaded(file)
    /\ main(file)
    /\ UNCHANGED <<build, name, label>>

\* the user touches a widget (the category selectbox) or asks for a rerun:
\* the script runs again with the same file
Rerun ==
    /\ uploaded_file.present
    /\ main(uploaded_file.rows)
    /\ UNCHANGED <<build, uploaded_file, name, label>>

\* the user removes the file: the script runs and finds uploaded_file None
ClearUpload ==
    /\ uploaded_file.present
    /\ uploaded_file' = NoUpload
    /\ NoFile
    /\ UNCHANGED <<build, name, label>>

Next ==
    \/ \E file \in Files : Upload(file)
    \/ Rerun
    \/ ClearUpload

Spec == Init /\ [][Next]_vars

FormatNext ==
    \/ \E file \in FormatFiles : Upload(file)
    \/ Rerun
    \/ ClearUpload

SpecFormat == Init /\ [][FormatNext]_vars

\* categorize_campaign called on its own
CategorizeInit ==
    /\ Init
    /\ build = "stable"

Categorize ==
    /\ label = ""
    /\ \E nm \in Names :
         /\ name' = nm
         /\ label' = categorize_campaign(nm)
    /\ UNCHANGED pipelineVars

Forget ==
    /\ label # ""
    /\ name' = <<>>
    /\ label' = ""
    /\ UNCHANGED pipelineVars

CategorizeNext == Categorize \/ Forget

SpecCategorize == CategorizeInit /\ [][CategorizeNext]_vars

(***************************************************************************)
(* Properties                                                              *)
(***************************************************************************)
\* two characters that differ at most in case
SameLetter(a, b) ==
    a = b \/ \E i \in 1..Len(UpperCase) : {a, b} = {UpperCase[i], LowerCase[i]}

\* `kw` occurs in `nm` at some position, whatever the case of the letters
Occurs(kw, nm) ==
    \E off \in 0..(Len(nm) - Len(kw)) :
        \A j \in 1..Len(kw) : SameLetter(nm[off + j], kw[j])

Priority ==
    << [kw |-> wednesday, label |-> "Wednesday Campaign"],
       [kw |-> friday,    label |-> "Friday Campaign"],
       [kw |-> monday,    label |-> "Monday Campaign"],
       [kw |-> monthly,   label |-> "Monthly Campaign"] >>

FirstMatch(nm) ==
    LET hits == {p \in 1..Len(Priority) : Occurs(Priority[p].kw, nm)}
    IN IF hits = {} THEN "Other"
       ELSE Priority[CHOOSE p \in hits : \A q \in hits : p <= q].label

\* C1: categorize_campaign returns, for every name (the empty one included),
\* one of the five labels: the label of the first keyword in the order
\* wednesday, friday, monday, monthly that occurs in the name in any case and
\* at any position, and Other when none occurs; a name holding both
\* "wednesday" and "friday" is a Wednesday Campaign.
C1_CategorizeTotalPriority ==
    label # "" =>
        /\ label \in Labels
        /\ label = FirstMatch(name)
        /\ (Occurs(wednesday, name) /\ Occurs(friday, name)) => label = "Wednesday Campaign"
        /\ name = <<>> => label = "Other"

\* a name that starts with "Friday" and goes on with "wednesday"
C1_Witness ==
    /\ label = "Wednesday Campaign"
    /\ Len(name) > Len(friday)
    /\ Occurs(friday, SubSeq(name, 1, Len(friday)))
    /\ Occurs(wednesday, SubSeq(name, Len(friday) + 1, Len(name)))

\* the text `s` is a number followed by one "%"
IsPercentage(s) ==
    /\ Len(s) >= 2
    /\ s[Len(s)] = "%"
    /\ ParseFloat(SubSeq(s, 1, Len(s) - 1)).ok

IsTimestamp(s) == StrpTime(s).ok

NoOutput == df = <<>> /\ sorted_df = <<>> /\ grouped = <<>>

BadSendTime(row) == row.Send_Time # <<>> /\ ~IsTimestamp(row.Send_Time)

\* a non-empty Open Rate that is no number once its trailing "%" are gone
BadOpenRate(row) ==
    row.Open_Rate # <<>> /\ ~ParseFloat(RStrip(row.Open_Rate, "%")).ok

InUnitInterval(x) == ~IsNaN(x) /\ ~Lt(x, Int2Rat(0)) /\ ~Gt(x, Int2Rat(1))

\* C3 as stated: every record of the row-level table has its Open Rate in
\* [0, 1].
C3_Original == \A i \in 1..Len(df) : InUnitInterval(df[i].Open_Rate)

\* what each Open Rate text of the inputs stands for
ExpectedOpenRate(s) ==
    CASE s = <<"1","0","%">> -> [n |-> 1, d |-> 10]
      [] s = <<"4","5">> -> [n |-> 9, d |-> 20]
      [] s = <<"3","0","%">> -> [n |-> 3, d |-> 10]
      [] s = <<"1","5","0","%">> -> [n |-> 3, d |-> 2]
      [] s = <<"-","5","%">> -> [n |-> -1, d |-> 20]
      [] s = <<"1","2",".","5","%","%">> -> [n |-> 1, d |-> 8]
      [] s = <<"2","0","%">> -> [n |-> 1, d |-> 5]
      [] s = <<>> -> [n |-> 0, d |-> 0]

\* C3 amended: the Open Rate of every record is the number of its cell
\* (trailing "%" stripped) divided by 100, and NaN for an empty cell; it lies
\* in [0, 1] exactly when that number lies in [0, 100], so "150%" gives 1.5
\* and "-5%" gives -0.05.
C3_OpenRateIsPercentOverHundred ==
    error = "none" =>
        \A i \in 1..Len(df) :
            \E j \in 1..Len(uploaded_file.rows) :
                /\ df[i].Subject = uploaded_file.rows[j].Subject
                /\ df[i].Open_Rate = ExpectedOpenRate(uploaded_file.rows[j].Open_Rate)
                /\ InUnitInterval(df[i].Open_Rate)
                     <=> (uploaded_file.rows[j].Open_Rate
                            \notin {<<"1","5","0","%">>, <<"-","5","%">>, <<>>})

\* records with the Open Rates 1.5 and -0.05 came out
C3_Witness ==
    /\ error = "none"
    /\ \E i \in 1..Len(df) : df[i].Open_Rate = [n |-> 3, d |-> 2]
    /\ \E i \in 1..Len(df) : df[i].Open_Rate = [n |-> -1, d |-> 20]

Means == [i \in 1..Len(grouped) |-> grouped[i].Mean_Open_Rate]

\* position of a label in the grouping order
GroupingRank(g) == CHOOSE p \in 1..Len(SortedLabels) : SortedLabels[p] = g

\* C4 as stated, for files whose Open Rate cells are all filled: the summary
\* rows are in strictly descending order of Mean Open Rate.
C4_Original ==
    \A i \in 1..Len(grouped), j \in 1..Len(grouped) :
        (i < j /\ \A k \in 1..Len(df) : ~IsNaN(df[k].Open_Rate)) =>
            Gt(Means[i], Means[j])

\* C4 amended: the summary rows are in non-increasing order of Mean Open
\* Rate: no row has a smaller mean than a later row, and a group without any
\* numeric open rate (mean NaN) comes after every group that has one.  Rows
\* of equal mean keep their grouping order only where the sort kernel of the
\* build is stable; the default quicksort does not promise it.
C4_SummaryNonIncreasing ==
    \A i \in 1..Len(grouped), j \in 1..Len(grouped) :
        i < j => /\ ~Lt(Means[i], Means[j])
                 /\ IsNaN(Means[i]) => IsNaN(Means[j])
                 /\ (build = "stable" /\ Means[i] = Means[j]) =>
                       GroupingRank(grouped[i].Campaign_Group)
                         < GroupingRank(grouped[j].Campaign_Group)

\* three groups of distinct means that the grouping did not yield in order
C4_Witness ==
    /\ Len(grouped) = 3
    /\ Gt(Means[1], Means[2]) /\ Gt(Means[2], Means[3])
    /\ plot_average_open_rates(grouped) = <<"Monday Campaign", "Other", "Friday Campaign">>

RowsLabelled(g) == {i \in 1..Len(df) : df[i].Campaign_Group = g}

RECURSIVE SumCounts(_)
SumCounts(grp) ==
    IF grp = <<>> THEN 0 ELSE grp[1].Campaign_Count + SumCounts(Tail(grp))

\* C5: the summary has exactly one row per label of the row-level table,
\* each Campaign Count is the number of records bearing the label, and the
\* counts add up to the number of input rows.
C5_Original ==
    (uploaded_file.present /\ error = "none") =>
        /\ \A i \in 1..Len(df) :
              Cardinality({p \in 1..Len(grouped) :
                             grouped[p].Campaign_Group = df[i].Campaign_Group}) = 1
        /\ \A p \in 1..Len(grouped) :
              /\ RowsLabelled(grouped[p].Campaign_Group) # {}
              /\ grouped[p].Campaign_Count = Cardinality(RowsLabelled(grouped[p].Campaign_Group))
        /\ SumCounts(grouped) = Len(uploaded_file.rows)

\* a record without an open rate shares its label with one that has one: the
\* group's Campaign Count leaves that record out
C5_Witness ==
    /\ uploaded_file.present
    /\ error = "none"
    /\ \E p \in 1..Len(grouped) :
          /\ grouped[p].Campaign_Count = 1
          /\ Cardinality(RowsLabelled(grouped[p].Campaign_Group)) = 2
          /\ \E i \in RowsLabelled(grouped[p].Campaign_Group) : IsNaN(df[i].Open_Rate)

\* the open rates of all records in increasing order, NaN left out
AllRatesAscending == SortedValues(OpenRates(df))

\* the quartile k/4 of the whole table, as four times its value: the two
\* neighbours of position (n-1)k/4 weighted by their distance to it
FourTimesQuartile(k) ==
    LET v == AllRatesAscending
        h == (Len(v) - 1) * k
        below == v[h \div 4 + 1]
        above == v[IF h % 4 = 0 THEN h \div 4 + 1 ELSE h \div 4 + 2]
    IN RAdd(RMul(Int2Rat(4 - (h % 4)), below), RMul(Int2Rat(h % 4), above))

\* lower and upper fence, as eight times their value:
\* 8(Q1 - 1.5(Q3 - Q1)) = 5(4 Q1) - 3(4 Q3)
EightTimesLower ==
    RSub(RMul(Int2Rat(5), FourTimesQuartile(1)), RMul(Int2Rat(3), FourTimesQuartile(3)))
EightTimesUpper ==
    RSub(RMul(Int2Rat(5), FourTimesQuartile(3)), RMul(Int2Rat(3), FourTimesQuartile(1)))

OutsideFences(x) ==
    /\ AllRatesAscending # <<>>
    /\ \/ Lt(RMul(Int2Rat(8), x), EightTimesLower)
       \/ Gt(RMul(Int2Rat(8), x), EightTimesUpper)

\* C6: a record is flagged exactly when its open rate is strictly below
\* Q1 - 1.5 IQR or strictly above Q3 + 1.5 IQR, Q1 and Q3 being the
\* linear-interpolation quartiles of the open rates of all records, whatever
\* their group; for the rates 1, 2, 3, 4, 5, 100 the fences are -1.5 and 8.5
\* and only 100 is flagged.
C6_OutlierIffOutsideGlobalFences ==
    /\ \A i \in 1..Len(df) : df[i].Is_Outlier <=> OutsideFences(df[i].Open_Rate)
    /\ (uploaded_file.present /\ uploaded_file.rows = ExampleFile) =>
          /\ EightTimesLower = Int2Rat(-12)
          /\ EightTimesUpper = Int2Rat(68)
          /\ \A i \in 1..Len(df) : df[i].Is_Outlier <=> df[i].Open_Rate = Int2Rat(100)
          /\ Len(df) = 6

\* a record flagged by the fences of the whole table although it is the only
\* record of its group, beside records that are not flagged
C6_Witness ==
    /\ Len(df) >= 4
    /\ \E i \in 1..Len(df) :
          /\ df[i].Is_Outlier
          /\ Cardinality(RowsLabelled(df[i].Campaign_Group)) = 1
    /\ \E i \in 1..Len(df) : ~df[i].Is_Outlier

\* C8: when every record has the same open rate, no record is flagged.
C8_NoOutlierWithoutSpread ==
    (\A i \in 1..Len(df) : ~IsNaN(df[i].Open_Rate) /\ df[i].Open_Rate = df[1].Open_Rate)
    => \A i \in 1..Len(df) : ~df[i].Is_Outlier

\* several records of one open rate, written "10%" and "10.0%"
C8_Witness ==
    /\ Len(df) >= 3
    /\ \A i \in 1..Len(df) : df[i].Open_Rate = [n |-> 1, d |-> 10]
    /\ \E i \in 1..Len(uploaded_file.rows) :
          uploaded_file.rows[i].Open_Rate = <<"1","0",".","0","%">>
    /\ \E i \in 1..Len(uploaded_file.rows) :
          uploaded_file.rows[i].Open_Rate = <<"1","0","%">>
    /\ \A i \in 1..Len(df) : ~df[i].Is_Outlier

LabelsPresent == {df[i].Campaign_Group : i \in 1..Len(df)}
GroupMean(g) == Mean(GroupRates(df, g))
GroupMedian(g) == Median(GroupRates(df, g))
PositionIn(order, g) == CHOOSE p \in 1..Len(order) : order[p] = g

\* C9: the bar chart's category order is the summary's row order; the box
\* plot's category order lists the labels of the row-level table by
\* non-increasing per-group median, computed from that table; where one group
\* has the larger mean and another the larger median, the two charts order
\* them differently.
C9_ChartOrdersIndependent ==
    (uploaded_file.present /\ error = "none") =>
        /\ bar_order = [i \in 1..Len(grouped) |-> grouped[i].Campaign_Group]
        /\ Len(box_order) = Cardinality(LabelsPresent)
        /\ {box_order[p] : p \in 1..Len(box_order)} = LabelsPresent
        /\ \A p \in 1..Len(box_order), q \in 1..Len(box_order) :
              p < q => /\ ~Lt(GroupMedian(box_order[p]), GroupMedian(box_order[q]))
                       /\ IsNaN(GroupMedian(box_order[p])) => IsNaN(GroupMedian(box_order[q]))
        /\ \A g \in LabelsPresent, h \in LabelsPresent :
              (Gt(GroupMean(g), GroupMean(h)) /\ Lt(GroupMedian(g), GroupMedian(h))) =>
                  /\ PositionIn(bar_order, g) < PositionIn(bar_order, h)
                  /\ PositionIn(box_order, h) < PositionIn(box_order, g)

\* a group of the larger mean and the smaller median: the charts disagree
C9_Witness ==
    /\ error = "none"
    /\ \E g \in LabelsPresent, h \in LabelsPresent :
          Gt(GroupMean(g), GroupMean(h)) /\ Lt(GroupMedian(g), GroupMedian(h))
    /\ bar_order # box_order

\* C10: the row-level table holds every input row exactly once and no other
\* row, in non-increasing order of open rate whatever the order of the input
\* (rows without one last), and flagging the outliers changed neither the
\* rows nor their order.
C10_RowLevelIsSortedPermutation ==
    (uploaded_file.present /\ error = "none") =>
        /\ Len(df) = Len(uploaded_file.rows)
        /\ \A j \in 1..Len(uploaded_file.rows) :
              Cardinality({i \in 1..Len(df) :
                             /\ df[i].Subject = uploaded_file.rows[j].Subject
                             /\ df[i].Campaign_Name = uploaded_file.rows[j].Campaign_Name})
                = Cardinality({k \in 1..Len(uploaded_file.rows) :
                                 uploaded_file.rows[k] = uploaded_file.rows[j]})
        /\ \A i \in 1..Len(df), j \in 1..Len(df) :
              i < j => /\ ~Lt(df[i].Open_Rate, df[j].Open_Rate)
                       /\ IsNaN(df[i].Open_Rate) => IsNaN(df[j].Open_Rate)
        /\ Len(sorted_df) = Len(df)
        /\ \A i \in 1..Len(df) :
              /\ df[i].Campaign_Group = sorted_df[i].Campaign_Group
              /\ df[i].Campaign_Name = sorted_df[i].Campaign_Name
              /\ df[i].Subject = sorted_df[i].Subject
              /\ df[i].Open_Rate = sorted_df[i].Open_Rate
              /\ df[i].Send_Date = sorted_df[i].Send_Date
              /\ df[i].Campaign_URL = sorted_df[i].Campaign_URL

\* four rows uploaded in increasing order of open rate, one of them flagged
C10_Witness ==
    /\ uploaded_file.present
    /\ error = "none"
    /\ Len(df) = 4
    /\ \A i \in 1..4 : df[i].Subject = uploaded_file.rows[5 - i].Subject
    /\ \A i \in 1..3 : Gt(df[i].Open_Rate, df[i + 1].Open_Rate)
    /\ df[1].Is_Outlier

\* C7: a second run of the script on the same uploaded file yields the same
\* row-level and summary tables (rows, values and order), the same chart
\* orders and the same outcome as the run before it.
C7_RerunYieldsSameTables ==
    [][(uploaded_file.present /\ uploaded_file' = uploaded_file) =>
          /\ df' = df
          /\ grouped' = grouped
          /\ error' = error
          /\ bar_order' = bar_order
          /\ box_order' = box_order]_vars

\* the script has run on an uploaded file of several groups: process_data has
\* rewritten the frame it was given
C7_Witness ==
    /\ uploaded_file.present
    /\ error = "none"
    /\ Len(grouped) >= 2
    /\ frame.Open_Rate_dtype = "float64"
    /\ "Campaign Group" \in frame.columns

=============================================================================
